---- MODULE Spec2Model ----
(***************************************************************************)
(* Model of server.py: the /download handler, its delayed cleanup thread,  *)
(* the retention sweeper (cleanup_old_files / cleanup_thread) and the      *)
(* atexit hook (cleanup_on_exit), all sharing the set temp_files, the lock *)
(* temp_files_lock and the files under TEMP_DIR.                           *)
(*                                                                         *)
(* Strings that the code inspects character by character (the title) are   *)
(* sequences of one-character strings.  A file path is the sequence of the *)
(* characters of f"{video_title}_{quality}_" followed by the timestamp and *)
(* ".mp4"; the timestamp stands for strftime("%Y%m%d_%H%M%S") of the local *)
(* time, which has a fixed width and is injective on local seconds.        *)
(***************************************************************************)
EXTENDS Integers, Sequences, FiniteSets, TLC

VARIABLES
    jobs,        \* one record per /download request (the handler's locals)
    dc,          \* per request: its delayed_cleanup thread
    temp_files,  \* the registry (server.py:20)
    lock,        \* holder of temp_files_lock (server.py:21)
    disk,        \* files under TEMP_DIR: path -> [size, ctime, owner]
    sw,          \* the sweeper thread: cleanup_thread / cleanup_old_files
    ex,          \* the atexit hook cleanup_on_exit
    now,         \* the clock time.time(), in seconds
    dst,         \* seconds by which the local time of datetime.now() is
                 \* ahead of the clock: daylight saving time or none
    removes      \* history: the os.remove calls made per path

vars == <<jobs, dc, temp_files, lock, disk, sw, ex, now, dst, removes>>

----------------------------------------------------------------------------
(* Bounds of the model *)

MaxJobs == 2          \* /download requests over a run
MaxTicks == 2         \* clock advances over a run
MaxPad == 2           \* longest prefix / suffix around a title's filler

(* Program constants *)

TitleLimit == 50      \* video_title[:50]
SweepAge == 3600      \* current_time - getctime > 3600
SweepInterval == 300  \* time.sleep(300) in cleanup_thread

\* the hour by which local time is set back when daylight saving time ends
DstShift == 3600

Jobs == 1..MaxJobs

NoArg == "<absent>"   \* request.args.get(...) found no such argument
NoPath == <<>>        \* output_file not computed yet

\* holders of temp_files_lock
Unlocked == <<"free", 0>>
HeldBySweeper == <<"sweeper", 0>>
HeldByExit == <<"exit", 0>>

----------------------------------------------------------------------------
(* Characters.  Each stands for a class the code distinguishes:            *)
(* str.isalnum() accepts ASCII and non-ASCII letters and digits alike;     *)
(* "U+00E9" is the letter e-acute.                                         *)

AsciiAlnum == {"a", "v", "7"}
UnicodeAlnum == {"U+00E9"}
Whitespace == {" ", "\t"}
Alphabet == AsciiAlnum \cup UnicodeAlnum \cup Whitespace \cup {"-", "_", "!"}

\* c.isalnum()
IsAlnum(c) == c \in AsciiAlnum \cup UnicodeAlnum

\* c.isalnum() or c in (' ', '-', '_')
KeepChar(c) == IsAlnum(c) \/ c \in {" ", "-", "_"}

\* str.rstrip(): drop the trailing whitespace
RECURSIVE Rstrip(_)
Rstrip(s) ==
    IF s # <<>> /\ s[Len(s)] \in Whitespace
    THEN Rstrip(SubSeq(s, 1, Len(s) - 1))
    ELSE s

\* str.replace(' ', '_')
RECURSIVE ReplaceSpaces(_)
ReplaceSpaces(s) ==
    IF s = <<>> THEN <<>>
    ELSE <<IF Head(s) = " " THEN "_" ELSE Head(s)>> \o ReplaceSpaces(Tail(s))

\* s[:n]
Truncate(s, n) == IF Len(s) > n THEN SubSeq(s, 1, n) ELSE s

\* as Sanitize, with the [:50] missing
Sanitize_NoLimit(raw) == ReplaceSpaces(Rstrip(SelectSeq(raw, KeepChar)))

\* server.py:195-197
Sanitize(raw) ==
    Truncate(ReplaceSpaces(Rstrip(SelectSeq(raw, KeepChar))), TitleLimit)

\* as FormatSelector, with quality_formats[quality] for the .get with a
\* default: an unknown tag raises KeyError and no selector is chosen
FormatSelector_NoDefault(quality) ==
    CASE quality = "360p" ->
           "bestvideo[height<=360][ext=mp4]+bestaudio[ext=m4a]/best[height<=360][ext=mp4]/best[ext=mp4]"
      [] quality = "480p" ->
           "bestvideo[height<=480][ext=mp4]+bestaudio[ext=m4a]/best[height<=480][ext=mp4]/best[ext=mp4]"
      [] quality = "720p" ->
           "bestvideo[height<=720][ext=mp4]+bestaudio[ext=m4a]/best[height<=720][ext=mp4]/best[ext=mp4]"
      [] quality = "1080p" ->
           "bestvideo[height<=1080][ext=mp4]+bestaudio[ext=m4a]/best[height<=1080][ext=mp4]/best[ext=mp4]"
      [] quality = "best" -> "bestvideo[ext=mp4]+bestaudio[ext=m4a]/best[ext=mp4]/mp4"
      [] OTHER -> ""

\* quality_formats.get(quality, quality_formats['best'])
FormatSelector(quality) ==
    CASE quality = "360p" ->
           "bestvideo[height<=360][ext=mp4]+bestaudio[ext=m4a]/best[height<=360][ext=mp4]/best[ext=mp4]"
      [] quality = "480p" ->
           "bestvideo[height<=480][ext=mp4]+bestaudio[ext=m4a]/best[height<=480][ext=mp4]/best[ext=mp4]"
      [] quality = "720p" ->
           "bestvideo[height<=720][ext=mp4]+bestaudio[ext=m4a]/best[height<=720][ext=mp4]/best[ext=mp4]"
      [] quality = "1080p" ->
           "bestvideo[height<=1080][ext=mp4]+bestaudio[ext=m4a]/best[height<=1080][ext=mp4]/best[ext=mp4]"
      [] OTHER -> "bestvideo[ext=mp4]+bestaudio[ext=m4a]/best[ext=mp4]/mp4"

\* the characters of a quality tag
QualityChars(quality) ==
    CASE quality = "best" -> <<"b", "e", "s", "t">>
      [] quality = "360p" -> <<"3", "6", "0", "p">>
      [] quality = "480p" -> <<"4", "8", "0", "p">>
      [] quality = "720p" -> <<"7", "2", "0", "p">>
      [] quality = "1080p" -> <<"1", "0", "8", "0", "p">>
      [] quality = "4k" -> <<"4", "k">>
      [] quality = "7" -> <<"7">>
      [] quality = "v_7" -> <<"v", "_", "7">>

\* datetime.now(): the local time at the clock reading t
LocalTime(t) == t + dst

\* os.path.join(TEMP_DIR, f"{video_title}_{quality}_{timestamp}.mp4"), the
\* timestamp being strftime of the local time
OutputPath(title, quality, timestamp) ==
    title \o <<"_">> \o QualityChars(quality)
          \o <<"_", ToString(timestamp), ".mp4">>

----------------------------------------------------------------------------
(* The file system under TEMP_DIR *)

\* os.path.exists(p)
Exists(p) == p \in DOMAIN disk

\* the directory after a successful os.remove(p)
Removed(p) == [q \in DOMAIN disk \ {p} |-> disk[q]]

\* the directory after job j's download wrote size bytes to p
Written(p, size, j) ==
    [q \in DOMAIN disk \cup {p} |->
        IF q = p THEN [size |-> size, ctime |-> now, owner |-> j] ELSE disk[q]]

\* history, per path: calls = the os.remove calls made for it by the cleanup
\* triggers (sweep, delayed cleanup, stream-failure cleanup, exit hook);
\* lost = the requests whose downloaded file an os.remove call (of a trigger
\* or of a handler) has removed from that path
History(p) ==
    IF p \in DOMAIN removes THEN removes[p] ELSE [calls |-> 0, lost |-> {}]

RemoveCalls(p) == History(p).calls

\* the history after an os.remove(p) call
Noted(p, by_trigger) ==
    [q \in DOMAIN removes \cup {p} |->
        IF q = p
        THEN [calls |-> History(p).calls + (IF by_trigger THEN 1 ELSE 0),
              lost |-> History(p).lost \cup
                       (IF Exists(p) THEN {disk[p].owner} ELSE {})]
        ELSE removes[q]]

----------------------------------------------------------------------------
(* Inputs *)

\* request.args.get('videoId'): absent (None), empty or an identifier
NoVideoId == [given |-> FALSE, id |-> <<>>]
VideoId(id) == [given |-> TRUE, id |-> id]
VideoIdArgs == {NoVideoId, VideoId(<<>>), VideoId(<<"v">>)}

\* request.args.get('quality', 'best')
QualityArgs == {NoArg, "best"}

\* what ydl.extract_info(url, download=False) does: it raises, or returns an
\* info dict with a title, without the key 'title', or with title None
MetaRaise == [kind |-> "raise"]
MetaNoKey == [kind |-> "nokey"]
MetaNone == [kind |-> "none"]
MetaTitle(raw) == [kind |-> "title", raw |-> raw]

\* the titles the concurrent model draws from
RawTitles == {<<"v", "!">>}

MetaResults == {MetaTitle(t) : t \in RawTitles}

\* what ydl.download([url]) does: it writes the merged file (empty or not),
\* returns without writing a file, or raises, with or without a file left:
\* a yt_dlp.DownloadError ("raise") or any other exception ("raise_other")
DownloadResults ==
    {"file", "empty", "nofile", "raise", "raise_partial",
     "raise_other", "raise_other_partial"}

----------------------------------------------------------------------------
(* State after construction *)

NewJob ==
    [pc |-> "new", vid |-> <<>>, quality |-> NoArg, title |-> <<>>,
     out |-> NoPath, fmt |-> "", status |-> 0, msg |-> "",
     info |-> [kind |-> "unset"], meta |-> FALSE, dl |-> FALSE,
     registered |-> FALSE]

\* error is the exception that ended the latest firing, "" when none did
NewSweeper ==
    [pc |-> "sleep", wake |-> SweepInterval, current_time |-> 0,
     files_to_remove |-> {}, error |-> ""]

NewExit == [pc |-> "idle", todo |-> {}, cur |-> NoPath, dir_removed |-> FALSE]

Init ==
    /\ jobs = [j \in Jobs |-> NewJob]
    /\ dc = [j \in Jobs |-> [pc |-> "none"]]
    /\ temp_files = {}
    /\ lock = Unlocked
    /\ disk = <<>>
    /\ sw = NewSweeper
    /\ ex = NewExit
    /\ now = 0
    /\ dst = DstShift
    /\ removes = <<>>

\* the process runs until the interpreter has finalised: the threads, all
\* of them daemon threads (54, 277), still run while the exit hook runs and
\* after it has returned
Running == ex.pc # "done"

Respond(j, status, msg) ==
    [jobs EXCEPT ![j].pc = "done", ![j].status = status, ![j].msg = msg]

Goto(j, pc) == [jobs EXCEPT ![j].pc = pc]

----------------------------------------------------------------------------
(* download(): server.py:179-290 *)

\* as Start, with the videoId check missing
Start_NoValidation(j, vid, q) ==
    /\ Running
    /\ jobs[j].pc = "new"
    /\ IF j = 1 THEN TRUE ELSE jobs[j - 1].pc # "new"
    /\ jobs' = [jobs EXCEPT ![j].pc = "meta", ![j].vid = vid.id,
                            ![j].quality = IF q = NoArg THEN "best" ELSE q]
    /\ UNCHANGED <<dc, temp_files, lock, disk, sw, ex, now, dst, removes>>

\* server.py:181-187: read the arguments, reject a missing videoId
Start(j, vid, q) ==
    /\ Running
    /\ jobs[j].pc = "new"
    /\ IF j = 1 THEN TRUE ELSE jobs[j - 1].pc # "new"   \* requests in arrival order
    /\ IF ~vid.given \/ vid.id = <<>>
       THEN jobs' = [jobs EXCEPT ![j].pc = "done", ![j].status = 400,
                                 ![j].msg = "No video ID provided"]
       ELSE jobs' = [jobs EXCEPT ![j].pc = "meta", ![j].vid = vid.id,
                                 ![j].quality = IF q = NoArg THEN "best" ELSE q]
    /\ UNCHANGED <<dc, temp_files, lock, disk, sw, ex, now, dst, removes>>

\* server.py:193-200: the title from the metadata result
TitleOf(vid, res) ==
    CASE res.kind = "title" -> Sanitize(res.raw)
      [] res.kind = "nokey" -> Sanitize(vid)
      [] OTHER -> vid

\* as Metadata, with lines 207-208 missing: the handler goes on to the
\* download without having added output_file to temp_files
Metadata_Unregistered(j, res) ==
    /\ Running
    /\ jobs[j].pc = "meta"
    /\ LET title == TitleOf(jobs[j].vid, res)
       IN jobs' = [jobs EXCEPT ![j].pc = "preclean", ![j].meta = TRUE,
                               ![j].info = res,
                               ![j].title = title,
                               ![j].fmt = FormatSelector(jobs[j].quality),
                               ![j].out = OutputPath(title, jobs[j].quality,
                                                     LocalTime(now))]
    /\ UNCHANGED <<dc, temp_files, lock, disk, sw, ex, now, dst, removes>>

\* server.py:190-204: metadata call, title, timestamp, output_file
Metadata(j, res) ==
    /\ Running
    /\ jobs[j].pc = "meta"
    /\ LET title == TitleOf(jobs[j].vid, res)
       IN jobs' = [jobs EXCEPT ![j].pc = "reg", ![j].meta = TRUE,
                               ![j].info = res,
                               ![j].title = title,
                               ![j].out = OutputPath(title, jobs[j].quality,
                                                     LocalTime(now))]
    /\ UNCHANGED <<dc, temp_files, lock, disk, sw, ex, now, dst, removes>>

\* server.py:207: with temp_files_lock (acquire)
RegisterLock(j) ==
    /\ Running
    /\ jobs[j].pc = "reg"
    /\ lock = Unlocked
    /\ lock' = <<"job", j>>
    /\ jobs' = Goto(j, "regadd")
    /\ UNCHANGED <<dc, temp_files, disk, sw, ex, now, dst, removes>>

\* as Register, with the lock still held after line 208 (an acquire() with
\* no release() for the with block)
Register_KeepsLock(j) ==
    /\ Running
    /\ jobs[j].pc = "regadd"
    /\ temp_files' = temp_files \cup {jobs[j].out}
    /\ jobs' = [jobs EXCEPT ![j].pc = "preclean", ![j].registered = TRUE,
                            ![j].fmt = FormatSelector(jobs[j].quality)]
    /\ UNCHANGED <<dc, lock, disk, sw, ex, now, dst, removes>>

\* server.py:208-220: temp_files.add(output_file), release, format selector
Register(j) ==
    /\ Running
    /\ jobs[j].pc = "regadd"
    /\ temp_files' = temp_files \cup {jobs[j].out}
    /\ lock' = Unlocked
    /\ jobs' = [jobs EXCEPT ![j].pc = "preclean", ![j].registered = TRUE,
                            ![j].fmt = FormatSelector(jobs[j].quality)]
    /\ UNCHANGED <<dc, disk, sw, ex, now, dst, removes>>

\* server.py:232: if os.path.exists(output_file)
PreCheck(j) ==
    /\ Running
    /\ jobs[j].pc = "preclean"
    /\ jobs' = Goto(j, IF Exists(jobs[j].out) THEN "preremove" ELSE "extract")
    /\ UNCHANGED <<dc, temp_files, lock, disk, sw, ex, now, dst, removes>>

\* server.py:233: os.remove(output_file); it raises when the file has gone
\* since the check, which the handler at 258 turns into a 500
PreRemove(j) ==
    /\ Running
    /\ jobs[j].pc = "preremove"
    /\ IF Exists(jobs[j].out)
       THEN /\ disk' = Removed(jobs[j].out)
            /\ jobs' = Goto(j, "extract")
       ELSE /\ disk' = disk
            /\ jobs' = Respond(j, 500, "Error downloading video")
    /\ removes' = Noted(jobs[j].out, FALSE)
    /\ UNCHANGED <<dc, temp_files, lock, sw, ex, now, dst>>

\* server.py:241-242, 256-259: the download call and its exceptions
Download(j, res) ==
    /\ Running
    /\ jobs[j].pc = "extract"
    /\ disk' = CASE res \in {"file", "raise_partial", "raise_other_partial"} ->
                        Written(jobs[j].out, 1, j)
                 [] res = "empty" -> Written(jobs[j].out, 0, j)
                 [] OTHER -> disk
    /\ jobs' = CASE res \in {"raise", "raise_partial"} ->
                        [Respond(j, 500, "YouTube download error")
                            EXCEPT ![j].dl = TRUE]
                 [] res \in {"raise_other", "raise_other_partial"} ->
                        [Respond(j, 500, "Error downloading video")
                            EXCEPT ![j].dl = TRUE]
                 [] OTHER -> [jobs EXCEPT ![j].pc = "verify", ![j].dl = TRUE]
    /\ UNCHANGED <<dc, temp_files, lock, sw, ex, now, dst, removes>>

\* server.py:245-246: the file must exist
Verify(j) ==
    /\ Running
    /\ jobs[j].pc = "verify"
    /\ jobs' = IF Exists(jobs[j].out)
               THEN Goto(j, "size")
               ELSE Respond(j, 500, "Error: Download completed but file not found")
    /\ UNCHANGED <<dc, temp_files, lock, disk, sw, ex, now, dst, removes>>

\* server.py:249-250: os.path.getsize raises when the file has gone
GetSize(j) ==
    /\ Running
    /\ jobs[j].pc = "size"
    /\ jobs' = CASE ~Exists(jobs[j].out) -> Respond(j, 500, "Error downloading video")
                 [] Exists(jobs[j].out) /\ disk[jobs[j].out].size = 0 -> Goto(j, "rmempty")
                 [] OTHER -> Goto(j, "send")
    /\ UNCHANGED <<dc, temp_files, lock, disk, sw, ex, now, dst, removes>>

\* as RemoveEmpty, with the os.remove call missing
RemoveEmpty_KeepsFile(j) ==
    /\ Running
    /\ jobs[j].pc = "rmempty"
    /\ jobs' = Respond(j, 500, "Error: Downloaded file is empty")
    /\ UNCHANGED <<dc, temp_files, lock, disk, sw, ex, now, dst, removes>>

\* server.py:251-252: delete the empty file and fail; a raising os.remove
\* ends in the handler at 258
RemoveEmpty(j) ==
    /\ Running
    /\ jobs[j].pc = "rmempty"
    /\ IF Exists(jobs[j].out)
       THEN /\ disk' = Removed(jobs[j].out)
            /\ jobs' = Respond(j, 500, "Error: Downloaded file is empty")
       ELSE /\ disk' = disk
            /\ jobs' = Respond(j, 500, "Error downloading video")
    /\ removes' = Noted(jobs[j].out, FALSE)
    /\ UNCHANGED <<dc, temp_files, lock, sw, ex, now, dst>>

\* server.py:262-280: send_file opens the file (it raises when the file is
\* missing or unreadable); then the delayed_cleanup thread is started
SendFile(j, fails) ==
    /\ Running
    /\ jobs[j].pc = "send"
    /\ IF Exists(jobs[j].out) /\ ~fails
       THEN /\ jobs' = Respond(j, 200, "file")
            /\ dc' = [dc EXCEPT ![j].pc = "sleep"]
       ELSE /\ jobs' = Goto(j, "errcheck")
            /\ dc' = dc
    /\ UNCHANGED <<temp_files, lock, disk, sw, ex, now, dst, removes>>

\* server.py:284: if os.path.exists(output_file)
ErrCheck(j) ==
    /\ Running
    /\ jobs[j].pc = "errcheck"
    /\ jobs' = Goto(j, IF Exists(jobs[j].out) THEN "errremove" ELSE "errlock")
    /\ UNCHANGED <<dc, temp_files, lock, disk, sw, ex, now, dst, removes>>

\* server.py:285: os.remove(output_file); when it raises, 288 skips the discard
ErrRemove(j) ==
    /\ Running
    /\ jobs[j].pc = "errremove"
    /\ removes' = Noted(jobs[j].out, TRUE)
    /\ IF Exists(jobs[j].out)
       THEN /\ disk' = Removed(jobs[j].out)
            /\ jobs' = Goto(j, "errlock")
       ELSE /\ disk' = disk
            /\ jobs' = Respond(j, 500, "Error sending file")
    /\ UNCHANGED <<dc, temp_files, lock, sw, ex, now, dst>>

\* server.py:286: with temp_files_lock (acquire)
ErrLock(j) ==
    /\ Running
    /\ jobs[j].pc = "errlock"
    /\ lock = Unlocked
    /\ lock' = <<"job", j>>
    /\ jobs' = Goto(j, "errdiscard")
    /\ UNCHANGED <<dc, temp_files, disk, sw, ex, now, dst, removes>>

\* server.py:287-290: temp_files.discard(output_file), release, respond
ErrDiscard(j) ==
    /\ Running
    /\ jobs[j].pc = "errdiscard"
    /\ temp_files' = temp_files \ {jobs[j].out}
    /\ lock' = Unlocked
    /\ jobs' = Respond(j, 500, "Error sending file")
    /\ UNCHANGED <<dc, disk, sw, ex, now, dst, removes>>

----------------------------------------------------------------------------
(* delayed_cleanup(): server.py:265-274, one thread per served request *)

\* server.py:266-268: after the sleep, if os.path.exists(output_file)
DcCheck(j) ==
    /\ Running
    /\ dc[j].pc = "sleep"
    /\ dc' = [dc EXCEPT ![j].pc = IF Exists(jobs[j].out) THEN "remove" ELSE "lock"]
    /\ UNCHANGED <<jobs, temp_files, lock, disk, sw, ex, now, dst, removes>>

\* server.py:269: os.remove(output_file); when it raises, 273 skips the discard
DcRemove(j) ==
    /\ Running
    /\ dc[j].pc = "remove"
    /\ removes' = Noted(jobs[j].out, TRUE)
    /\ IF Exists(jobs[j].out)
       THEN /\ disk' = Removed(jobs[j].out)
            /\ dc' = [dc EXCEPT ![j].pc = "lock"]
       ELSE /\ disk' = disk
            /\ dc' = [dc EXCEPT ![j].pc = "done"]
    /\ UNCHANGED <<jobs, temp_files, lock, sw, ex, now, dst>>

\* server.py:271: with temp_files_lock (acquire)
DcLock(j) ==
    /\ Running
    /\ dc[j].pc = "lock"
    /\ lock = Unlocked
    /\ lock' = <<"dc", j>>
    /\ dc' = [dc EXCEPT ![j].pc = "discard"]
    /\ UNCHANGED <<jobs, temp_files, disk, sw, ex, now, dst, removes>>

\* server.py:272: temp_files.discard(output_file), release
DcDiscard(j) ==
    /\ Running
    /\ dc[j].pc = "discard"
    /\ temp_files' = temp_files \ {jobs[j].out}
    /\ lock' = Unlocked
    /\ dc' = [dc EXCEPT ![j].pc = "done"]
    /\ UNCHANGED <<jobs, disk, sw, ex, now, dst, removes>>

----------------------------------------------------------------------------
(* cleanup_thread() / cleanup_old_files(): server.py:23-51 *)

\* server.py:33: current_time - os.path.getctime(file_path) > 3600, the age
\* test of the loop body (which no firing reaches, see SweepSnapshot)
TooOld(current_time, ctime) == current_time - ctime > SweepAge

\* server.py:50, 25-26: the sleep is over, current_time = time.time()
SweepStart ==
    /\ Running
    /\ sw.pc = "sleep"
    /\ now >= sw.wake
    /\ sw' = [sw EXCEPT !.pc = "acquire", !.current_time = now]
    /\ UNCHANGED <<jobs, dc, temp_files, lock, disk, ex, now, dst, removes>>

\* server.py:27-28: with temp_files_lock (acquire), files_to_remove = set()
SweepLock ==
    /\ Running
    /\ sw.pc = "acquire"
    /\ lock = Unlocked
    /\ lock' = HeldBySweeper
    /\ sw' = [sw EXCEPT !.pc = "locked", !.files_to_remove = {}]
    /\ UNCHANGED <<jobs, dc, temp_files, disk, ex, now, dst, removes>>

\* as SweepSnapshot, with the try/except of 25, 44-45 missing: the exception
\* leaves cleanup_thread and the sweeper thread ends
SweepSnapshot_Propagates ==
    /\ Running
    /\ sw.pc = "locked"
    /\ lock' = Unlocked
    /\ sw' = [sw EXCEPT !.pc = "crashed", !.error = "UnboundLocalError"]
    /\ UNCHANGED <<jobs, dc, temp_files, disk, ex, now, dst, removes>>

\* server.py:29, 43-45, 50: the assignment temp_files -= files_to_remove of
\* line 43, in a function without a global statement, makes temp_files a
\* local name of cleanup_old_files, so that temp_files.copy() at 29 raises
\* UnboundLocalError before the first entry is looked at.  The with block
\* releases the lock, 44-45 print the error, and the thread sleeps again.
\* No os.path.exists, os.path.getctime or os.remove call is made and the
\* registry is left as it was.
SweepSnapshot ==
    /\ Running
    /\ sw.pc = "locked"
    /\ lock' = Unlocked
    /\ sw' = [NewSweeper EXCEPT !.wake = now + SweepInterval,
                                !.error = "UnboundLocalError"]
    /\ UNCHANGED <<jobs, dc, temp_files, disk, ex, now, dst, removes>>

----------------------------------------------------------------------------
(* cleanup_on_exit(): server.py:58-77 *)

\* server.py:61-62: acquire the lock, iterate over temp_files.copy()
ExitLock ==
    /\ ex.pc = "idle"
    /\ lock = Unlocked
    /\ lock' = HeldByExit
    /\ ex' = [ex EXCEPT !.pc = "loop", !.todo = temp_files]
    /\ UNCHANGED <<jobs, dc, temp_files, disk, sw, now, dst, removes>>

\* server.py:64: if os.path.exists(file_path)
ExitCheck(p) ==
    /\ ex.pc = "loop"
    /\ p \in ex.todo
    /\ ex' = IF Exists(p)
             THEN [ex EXCEPT !.pc = "remove", !.cur = p]
             ELSE [ex EXCEPT !.todo = @ \ {p}]
    /\ UNCHANGED <<jobs, dc, temp_files, lock, disk, sw, now, dst, removes>>

\* as ExitRemove, with the try/except of 63, 67-68 missing: a raising
\* os.remove leaves the loop and the with block, and ends the hook at 76-77
ExitRemove_Propagates ==
    /\ ex.pc = "remove"
    /\ removes' = Noted(ex.cur, TRUE)
    /\ disk' = IF Exists(ex.cur) THEN Removed(ex.cur) ELSE disk
    /\ ex' = IF Exists(ex.cur)
             THEN [ex EXCEPT !.pc = "loop", !.cur = NoPath, !.todo = @ \ {ex.cur}]
             ELSE [ex EXCEPT !.pc = "returned"]
    /\ lock' = IF Exists(ex.cur) THEN lock ELSE Unlocked
    /\ UNCHANGED <<jobs, dc, temp_files, sw, now, dst>>

\* server.py:65-68: os.remove(file_path), an exception is printed
ExitRemove ==
    /\ ex.pc = "remove"
    /\ removes' = Noted(ex.cur, TRUE)
    /\ disk' = IF Exists(ex.cur) THEN Removed(ex.cur) ELSE disk
    /\ ex' = [ex EXCEPT !.pc = "loop", !.cur = NoPath, !.todo = @ \ {ex.cur}]
    /\ UNCHANGED <<jobs, dc, temp_files, lock, sw, now, dst>>

\* server.py:62, 69: the loop is over, the with block releases the lock
ExitUnlock ==
    /\ ex.pc = "loop"
    /\ ex.todo = {}
    /\ lock' = Unlocked
    /\ ex' = [ex EXCEPT !.pc = "rmdir"]
    /\ UNCHANGED <<jobs, dc, temp_files, disk, sw, now, dst, removes>>

\* server.py:71-77: remove TEMP_DIR when it is empty by now; the hook
\* returns
ExitFinish ==
    /\ ex.pc = "rmdir"
    /\ ex' = [ex EXCEPT !.pc = "returned", !.dir_removed = (DOMAIN disk = {})]
    /\ UNCHANGED <<jobs, dc, temp_files, lock, disk, sw, now, dst, removes>>

\* server.py:79: the hook runs at interpreter exit; once it has returned the
\* interpreter finalises, which ends the daemon threads wherever they are
Finalize ==
    /\ ex.pc = "returned"
    /\ ex' = [ex EXCEPT !.pc = "done"]
    /\ UNCHANGED <<jobs, dc, temp_files, lock, disk, sw, now, dst, removes>>

----------------------------------------------------------------------------
(* The clock *)

\* The clock readings explored are 0, 3600, 3601, 7201, ...: alternately the
\* retention age and one second later, so that a file is seen at an age of
\* exactly 3600 s and just above it, and requests fall in equal and in
\* different seconds, also one hour apart (the hour that local time repeats
\* when daylight saving time ends).
TicksOf(n) == 2 * (n \div (SweepAge + 1)) + (IF n % (SweepAge + 1) = SweepAge THEN 1 ELSE 0)

TickStep(n) == IF TicksOf(n) % 2 = 0 THEN SweepAge ELSE 1

Tick ==
    /\ Running
    /\ TicksOf(now) < MaxTicks
    /\ now' = now + TickStep(now)
    /\ UNCHANGED <<jobs, dc, temp_files, lock, disk, sw, ex, dst, removes>>

\* daylight saving time ends: local time is set back by an hour, so that
\* datetime.now() of line 203 gives the readings of the last hour again
EndDst ==
    /\ Running
    /\ dst = DstShift
    /\ dst' = 0
    /\ UNCHANGED <<jobs, dc, temp_files, lock, disk, sw, ex, now, removes>>

----------------------------------------------------------------------------
JobStep(j) ==
    \/ \E vid \in VideoIdArgs, q \in QualityArgs : Start(j, vid, q)
    \/ \E res \in MetaResults : Metadata(j, res)
    \/ RegisterLock(j)
    \/ Register(j)
    \/ PreCheck(j)
    \/ PreRemove(j)
    \/ \E res \in DownloadResults : Download(j, res)
    \/ Verify(j)
    \/ GetSize(j)
    \/ RemoveEmpty(j)
    \/ \E fails \in BOOLEAN : SendFile(j, fails)
    \/ ErrCheck(j)
    \/ ErrRemove(j)
    \/ ErrLock(j)
    \/ ErrDiscard(j)

DcStep(j) == DcCheck(j) \/ DcRemove(j) \/ DcLock(j) \/ DcDiscard(j)

SweepStep == SweepStart \/ SweepLock \/ SweepSnapshot

ExitStep ==
    \/ ExitLock
    \/ \E p \in ex.todo : ExitCheck(p)
    \/ ExitRemove
    \/ ExitUnlock
    \/ ExitFinish
    \/ Finalize

Next ==
    \/ \E j \in Jobs : JobStep(j)
    \/ \E j \in Jobs : DcStep(j)
    \/ SweepStep
    \/ ExitStep
    \/ Tick

Spec == Init /\ [][Next]_vars

----------------------------------------------------------------------------
(* The path-building prefix of download() on a wide range of inputs: one   *)
(* request, any quality tag, any metadata result.                          *)

\* sequences over S of length at most n
RECURSIVE SeqsUpTo(_, _)
SeqsUpTo(S, n) ==
    IF n = 0 THEN {<<>>}
    ELSE LET shorter == SeqsUpTo(S, n - 1)
         IN shorter \cup {Append(t, c) : t \in shorter, c \in S}

\* k copies of the letter "a"
RECURSIVE Filler(_)
Filler(k) == IF k = 0 THEN <<>> ELSE <<"a">> \o Filler(k - 1)

\* titles: up to MaxPad arbitrary characters before and after a run of
\* letters that brings the length around the limit of 50
FillerLengths == {0, TitleLimit - MaxPad, TitleLimit}

TitlePool ==
    {pre \o Filler(k) \o suf :
        pre \in SeqsUpTo(Alphabet, 1), k \in FillerLengths,
        suf \in SeqsUpTo(Alphabet, MaxPad)}

AllMetaResults ==
    {MetaRaise, MetaNoKey, MetaNone} \cup {MetaTitle(t) : t \in TitlePool}

AllVideoIdArgs == VideoIdArgs \cup {VideoId(<<"v", "!", " ">>)}

AllQualityArgs == {NoArg, "360p", "480p", "720p", "1080p", "best", "4k"}

PathStart == \E vid \in AllVideoIdArgs, q \in AllQualityArgs : Start(1, vid, q)

PathMetadata == \E res \in AllMetaResults : Metadata(1, res)

PathNext == PathStart \/ PathMetadata \/ RegisterLock(1) \/ Register(1)

PathSpec == Init /\ [][PathNext]_vars

----------------------------------------------------------------------------
(* The path-building prefix of download() of all requests, over a clock    *)
(* that advances and a local time that is set back once: the requests get  *)
(* their paths in equal or in different seconds, of the clock and of the   *)
(* local time, from videoIds and quality tags with and without "_".        *)

ClockVideoIdArgs == {VideoId(<<"a">>), VideoId(<<"a", "_", "v">>)}

ClockQualityArgs == {NoArg, "7", "v_7"}

ClockStart(j) ==
    \E vid \in ClockVideoIdArgs, q \in ClockQualityArgs : Start(j, vid, q)

ClockNext ==
    \/ \E j \in Jobs :
          \/ ClockStart(j)
          \/ Metadata(j, MetaRaise)
          \/ RegisterLock(j)
          \/ Register(j)
    \/ Tick
    \/ EndDst

ClockSpec == Init /\ [][ClockNext]_vars

----------------------------------------------------------------------------
(* Progress.  A thread that can take a step takes one: the handler of a     *)
(* request that has arrived (the metadata and download calls return or      *)
(* raise), a delayed_cleanup thread, the sweeper, the exit hook once it has *)
(* been entered, the interpreter's finalisation once the hook has returned; *)
(* and the clock advances.  Nothing makes a request arrive or the process   *)
(* exit.                                                                    *)

\* a step of the handler of request j after the arguments have been read,
\* other than the os.remove of line 233
HandlerStepButOverwrite(j) ==
    \/ \E res \in MetaResults : Metadata(j, res)
    \/ RegisterLock(j)
    \/ Register(j)
    \/ PreCheck(j)
    \/ \E res \in DownloadResults : Download(j, res)
    \/ Verify(j)
    \/ GetSize(j)
    \/ RemoveEmpty(j)
    \/ \E fails \in BOOLEAN : SendFile(j, fails)
    \/ ErrCheck(j)
    \/ ErrRemove(j)
    \/ ErrLock(j)
    \/ ErrDiscard(j)

\* a step of the handler of request j after the arguments have been read
HandlerStep(j) == HandlerStepButOverwrite(j) \/ PreRemove(j)

\* a step of the exit hook after it has taken the lock
HookStep ==
    \/ \E p \in ex.todo : ExitCheck(p)
    \/ ExitRemove
    \/ ExitUnlock
    \/ ExitFinish

\* the clock advances along the readings of Tick, at most bound times
Advance(bound) ==
    /\ Running
    /\ TicksOf(now) < bound
    /\ now' = now + TickStep(now)
    /\ UNCHANGED <<jobs, dc, temp_files, lock, disk, sw, ex, dst, removes>>

(* One request and a clock that runs for more than two hours: the sweeper   *)
(* fires several times.  A request that is alone finds no file at its path  *)
(* before its download (os.path.exists at 232 is false), so that the        *)
(* os.remove of 233 is not among its steps.                                 *)

LiveTicks == 4        \* clock advances over a run

LiveTick == Advance(LiveTicks)

LiveNext ==
    \/ \E vid \in VideoIdArgs, q \in QualityArgs : Start(1, vid, q)
    \/ HandlerStepButOverwrite(1)
    \/ DcStep(1)
    \/ SweepStep
    \/ ExitLock
    \/ HookStep
    \/ Finalize
    \/ LiveTick

LiveSpec ==
    /\ Init
    /\ [][LiveNext]_vars
    /\ WF_vars(HandlerStepButOverwrite(1))
    /\ WF_vars(DcStep(1))
    /\ WF_vars(SweepStep)
    /\ WF_vars(HookStep)
    /\ WF_vars(Finalize)
    /\ WF_vars(LiveTick)

(* All requests and a clock that advances once, past the first wake-up of  *)
(* the sweeper: every thread that takes temp_files_lock competes for it.    *)

LockTicks == 1        \* clock advances over a run

LockTick == Advance(LockTicks)

LockNext ==
    \/ \E j \in Jobs :
          \/ \E vid \in VideoIdArgs, q \in QualityArgs : Start(j, vid, q)
          \/ HandlerStep(j)
          \/ DcStep(j)
    \/ SweepStep
    \/ ExitLock
    \/ HookStep
    \/ Finalize
    \/ LockTick

LockSpec ==
    /\ Init
    /\ [][LockNext]_vars
    /\ \A j \in Jobs : WF_vars(HandlerStep(j)) /\ WF_vars(DcStep(j))
    /\ WF_vars(SweepStep)
    /\ WF_vars(HookStep)
    /\ WF_vars(Finalize)
    /\ WF_vars(LockTick)

----------------------------------------------------------------------------
(* Properties *)

\* the handler of request j is between its first and its last statement
InFlight(j) == jobs[j].pc \notin {"new", "done"}

\* request j has executed temp_files.add(output_file)
Registered(j) == jobs[j].out # NoPath /\ jobs[j].pc \notin {"reg", "regadd"}

\* the os.remove calls of the cleanup triggers recorded for p after the step
CallsAfter(p) == IF p \in DOMAIN removes' THEN removes'[p].calls ELSE 0

\* the step is the one of request j that answers after a zero-byte download
EmptyOutputStep(j) == jobs[j].pc = "rmempty" /\ jobs'[j].pc = "done"

\* C1 (as claimed): when the download left a zero-byte file, the request
\* answers 500 and, at that moment, the file is absent from disk and the
\* path is absent from temp_files.
C1_EmptyOutputUntracked ==
    [][\A j \in Jobs :
          EmptyOutputStep(j) =>
              /\ jobs'[j].status = 500
              /\ jobs[j].out \notin DOMAIN disk'
              /\ jobs[j].out \notin temp_files']_vars

\* C1 (amended): when the download left a zero-byte file, the request answers
\* 500 and, at that moment, the file is absent from disk; the request does
\* not touch temp_files, where the path stays.
C1_EmptyOutputDeleted ==
    [][\A j \in Jobs :
          EmptyOutputStep(j) =>
              /\ jobs'[j].status = 500
              /\ jobs[j].out \notin DOMAIN disk'
              /\ temp_files' = temp_files]_vars

C1_Witness ==
    \E j \in Jobs :
        /\ jobs[j].pc = "done"
        /\ jobs[j].msg = "Error: Downloaded file is empty"
        /\ jobs[j].out \notin DOMAIN disk
        /\ jobs[j].out \in temp_files

\* C2: two requests for the same videoId and quality that are in flight at
\* the same time have distinct output paths.
C2_DistinctPaths ==
    \A i, j \in Jobs :
        (/\ i # j
         /\ InFlight(i) /\ InFlight(j)
         /\ jobs[i].out # NoPath /\ jobs[j].out # NoPath
         /\ jobs[i].vid = jobs[j].vid
         /\ jobs[i].quality = jobs[j].quality)
        => jobs[i].out # jobs[j].out

\* C3: a path that a request has registered stays in temp_files as long as no
\* cleanup trigger has made a deletion call for it.
C3_TrackedUntilDeletion ==
    \A j \in Jobs :
        (Registered(j) /\ RemoveCalls(jobs[j].out) = 0)
        => jobs[j].out \in temp_files

\* C4 (as claimed): the cleanup triggers together make at most one os.remove
\* call for a path.
C4_AtMostOneRemove == \A p \in DOMAIN removes : removes[p].calls <= 1

\* C4 (amended): a cleanup trigger's os.remove call removes the file that is
\* at the path at that moment and nothing else; a call that finds the file
\* gone (another trigger removed it after this one's os.path.exists) removes
\* nothing, and the trigger carries on: the exit hook with its remaining
\* entries, the cleanup thread and the request to their end.
C4_SecondRemoveHarmless ==
    [][\A p \in DOMAIN removes' :
          CallsAfter(p) # RemoveCalls(p) =>
              /\ CallsAfter(p) = RemoveCalls(p) + 1
              /\ disk' = IF Exists(p) THEN Removed(p) ELSE disk
              /\ ex' # ex => ex'.pc = "loop" /\ ex'.todo = ex.todo \ {p}
              /\ \A j \in Jobs :
                    /\ dc'[j] # dc[j] =>
                          dc'[j].pc = IF Exists(p) THEN "lock" ELSE "done"
                    /\ jobs'[j] # jobs[j] =>
                          jobs'[j].pc = IF Exists(p) THEN "errlock" ELSE "done"]_vars

C4_Witness ==
    \E p \in DOMAIN removes :
        /\ removes[p].calls >= 2
        /\ ~Exists(p)
        /\ ex.pc = "loop"
        /\ p \notin ex.todo

\* C5: a request answers with its file only if no os.remove call has removed
\* the file its download wrote.
C5_ServedFileNeverRemoved ==
    [][\A j \in Jobs :
          (jobs[j].pc = "send" /\ jobs'[j].status = 200)
          => j \notin History(jobs[j].out).lost]_vars

\* the step is one by which request j fails before the streaming phase
FailsBeforeStreaming(j) ==
    /\ jobs[j].pc \in {"preremove", "extract", "verify", "size", "rmempty"}
    /\ jobs'[j].pc = "done"

\* request j has failed before the streaming phase
FailedBeforeStreaming(j) ==
    /\ jobs[j].pc = "done"
    /\ jobs[j].status = 500
    /\ jobs[j].msg # "Error sending file"

\* the sweeper's step ends a firing
SweepEnds == sw.pc = "locked" /\ sw'.pc = "sleep"

\* C6: when a request fails before streaming, its path is in temp_files at
\* the moment the error response is returned, and the sweeper reclaims it: a
\* firing that finds the file the failed request left, more than 3600 s old,
\* deletes the file and untracks the path.
C6_FailedPathStillTracked ==
    [][/\ \A j \in Jobs :
             FailsBeforeStreaming(j) => jobs[j].out \in temp_files'
       /\ SweepEnds =>
             \A j \in Jobs :
                 (/\ FailedBeforeStreaming(j)
                  /\ jobs[j].out \in temp_files
                  /\ Exists(jobs[j].out)
                  /\ TooOld(sw.current_time, disk[jobs[j].out].ctime))
                 => /\ jobs[j].out \notin DOMAIN disk'
                    /\ jobs[j].out \notin temp_files']_vars

\* C7: a request without a videoId (absent or empty) is answered 400 in its
\* first step, without a metadata or download call and without a path; that
\* step leaves temp_files and the disk as they are, and the request does
\* nothing afterwards.
C7_MissingVideoIdRejected ==
    [][\A j \in Jobs :
          /\ (jobs[j].pc = "new" /\ jobs'[j].pc # "new" /\ jobs'[j].vid = <<>>)
             => /\ jobs'[j].pc = "done"
                /\ jobs'[j].status = 400
                /\ ~jobs'[j].meta /\ ~jobs'[j].dl
                /\ jobs'[j].out = NoPath
                /\ temp_files' = temp_files
                /\ disk' = disk
          /\ jobs[j].status = 400 => jobs'[j] = jobs[j] /\ dc'[j] = dc[j]]_vars

C7_Witness ==
    \E j \in Jobs :
        /\ jobs[j].status = 400
        /\ \E i \in Jobs : i # j /\ jobs[i].status = 200 /\ jobs[i].out \in temp_files

\* C8: a firing of the sweep deletes and untracks every tracked path whose
\* file exists and is more than 3600 s old (by the time read at the start of
\* the firing), and neither deletes nor untracks a tracked path whose file
\* exists and is at most 3600 s old.
C8_SweepDeletesOnlyOld ==
    [][SweepEnds =>
          \A p \in temp_files :
              Exists(p) =>
                  IF TooOld(sw.current_time, disk[p].ctime)
                  THEN p \notin DOMAIN disk' /\ p \notin temp_files'
                  ELSE p \in DOMAIN disk' /\ p \in temp_files']_vars

\* C9: a firing of the sweep that runs while the file of a tracked path is
\* absent from disk, an os.remove call having taken it away, removes the path
\* from temp_files, makes no deletion call for it and raises no error.
C9_SweepUntracksMissing ==
    [][SweepEnds =>
          \A p \in temp_files :
              (p \in DOMAIN removes /\ ~Exists(p)) =>
                  /\ p \notin temp_files'
                  /\ CallsAfter(p) = RemoveCalls(p)
                  /\ sw'.error = ""]_vars

\* the characters of the sequence s
Chars(s) == {s[i] : i \in 1..Len(s)}

\* C10 (as claimed): a title that came from the metadata call is made of
\* ASCII letters, ASCII digits, space, underscore and hyphen only, does not
\* end in whitespace and is at most 50 characters long.
C10_TitleIsAscii ==
    \A j \in Jobs :
        jobs[j].info.kind = "title" =>
            /\ Chars(jobs[j].title) \subseteq AsciiAlnum \cup {" ", "_", "-"}
            /\ jobs[j].title = <<>> \/ jobs[j].title[Len(jobs[j].title)] \notin Whitespace
            /\ Len(jobs[j].title) <= TitleLimit

\* C10 (amended): a title that came from the metadata call is made of letters
\* and digits in the sense of str.isalnum (non-ASCII ones included), space,
\* underscore and hyphen only, does not end in whitespace and is at most 50
\* characters long.
C10_TitleIsAlnum ==
    \A j \in Jobs :
        jobs[j].info.kind = "title" =>
            /\ Chars(jobs[j].title) \subseteq
                   AsciiAlnum \cup UnicodeAlnum \cup {" ", "_", "-"}
            /\ jobs[j].title = <<>> \/ jobs[j].title[Len(jobs[j].title)] \notin Whitespace
            /\ Len(jobs[j].title) <= TitleLimit

C10_Witness ==
    \E j \in Jobs :
        /\ jobs[j].info.kind = "title"
        /\ Len(jobs[j].info.raw) > TitleLimit
        /\ Len(jobs[j].title) = TitleLimit
        /\ "!" \in Chars(jobs[j].info.raw)
        /\ "U+00E9" \in Chars(jobs[j].title)

\* the raw title has no character that survives the filter and the rstrip
SanitizesToEmpty(raw) ==
    \A i \in 1..Len(raw) : ~KeepChar(raw[i]) \/ raw[i] \in Whitespace

\* C11: once the metadata step is over, the title of a request (which has a
\* non-empty videoId) is not empty; when the metadata call raised, or the
\* title it returned sanitizes to the empty string, the title is the raw
\* videoId.
C11_TitleNeverEmpty ==
    \A j \in Jobs :
        jobs[j].meta =>
            /\ jobs[j].title # <<>>
            /\ jobs[j].info.kind = "raise" => jobs[j].title = jobs[j].vid
            /\ (jobs[j].info.kind = "title" /\ SanitizesToEmpty(jobs[j].info.raw))
               => jobs[j].title = jobs[j].vid

\* the heights of the bounded quality tags
BoundedTags == {"360p", "480p", "720p", "1080p"}

Height(tag) ==
    CASE tag = "360p" -> "360"
      [] tag = "480p" -> "480"
      [] tag = "720p" -> "720"
      [] tag = "1080p" -> "1080"

\* the three-tier expression bounded by the height h
ThreeTier(h) ==
    "bestvideo[height<=" \o h \o "][ext=mp4]+bestaudio[ext=m4a]/best[height<="
        \o h \o "][ext=mp4]/best[ext=mp4]"

\* C12: the format selector of a request that has passed line 220 is, for a
\* tag among 360p, 480p, 720p and 1080p, the three-tier expression bounded by
\* the tag's height, and for any tag other than these and 'best' the selector
\* chosen for 'best'; a selector is always chosen.
C12_FormatSelector ==
    \A j \in Jobs :
        jobs[j].pc = "preclean" =>
            /\ jobs[j].fmt # ""
            /\ jobs[j].quality \in BoundedTags
               => jobs[j].fmt = ThreeTier(Height(jobs[j].quality))
            /\ jobs[j].quality \notin BoundedTags \cup {"best"}
               => jobs[j].fmt = FormatSelector("best")

C12_Witness ==
    \E j \in Jobs :
        /\ jobs[j].pc = "preclean"
        /\ jobs[j].quality = "4k"
        /\ jobs[j].fmt = "bestvideo[ext=mp4]+bestaudio[ext=m4a]/best[ext=mp4]/mp4"

\* the step is the last one of request j's delayed_cleanup thread
DelayedCleanupEnds(j) == dc[j].pc \notin {"none", "done"} /\ dc'[j].pc = "done"

\* C13: a request whose stream hand-off succeeds starts its delayed cleanup
\* at that step, once, and no other request starts one; when the delayed
\* cleanup has finished, the request's path is out of temp_files and its
\* file is absent from disk, also when the file had been removed by another
\* trigger or the os.remove call raised.
C13_DelayedCleanupCompletes ==
    [][\A j \in Jobs :
          /\ (jobs[j].pc = "send" /\ jobs'[j].status = 200)
             => dc[j].pc = "none" /\ dc'[j].pc = "sleep"
          /\ (dc[j].pc = "none" /\ dc'[j].pc # "none")
             => jobs[j].pc = "send" /\ jobs'[j].status = 200
          /\ dc[j].pc # "none" => dc'[j].pc # "none"
          /\ DelayedCleanupEnds(j)
             => /\ jobs[j].out \notin temp_files'
                /\ jobs[j].out \notin DOMAIN disk']_vars

\* the step is the one by which request j answers after a failed stream setup
StreamFailureResponse(j) ==
    /\ jobs[j].pc \in {"errcheck", "errremove", "errlock", "errdiscard"}
    /\ jobs'[j].pc = "done"

\* C14: when stream setup fails, the request answers 500 and, at that moment,
\* its file is absent from disk, its path is out of temp_files and it has no
\* delayed cleanup.
C14_StreamFailureCleansUp ==
    [][\A j \in Jobs :
          StreamFailureResponse(j) =>
              /\ jobs'[j].status = 500
              /\ jobs[j].out \notin DOMAIN disk'
              /\ jobs[j].out \notin temp_files'
              /\ dc'[j].pc = "none"]_vars

\* what a step of the exit hook does to the entry it handles: the hook
\* iterates over all of temp_files; an entry whose file exists gets an
\* os.remove call whatever its age, an entry whose file is missing is passed
\* over; after the call, raised or not, the hook goes on with the other
\* entries; it ends only when none is left
ExitHookPerEntry ==
    /\ (ex.pc = "idle" /\ ex' # ex) => ex'.pc = "loop" /\ ex'.todo = temp_files
    /\ (ex.pc = "loop" /\ ex' # ex /\ ex'.pc # "rmdir") =>
          \E p \in ex.todo :
              IF Exists(p)
              THEN ex'.pc = "remove" /\ ex'.cur = p /\ ex'.todo = ex.todo
              ELSE ex'.pc = "loop" /\ ex'.todo = ex.todo \ {p} /\ removes' = removes
    /\ (ex.pc = "remove" /\ ex' # ex) =>
          /\ CallsAfter(ex.cur) = RemoveCalls(ex.cur) + 1
          /\ disk' = IF Exists(ex.cur) THEN Removed(ex.cur) ELSE disk
          /\ ex'.pc = "loop"
          /\ ex'.todo = ex.todo \ {ex.cur}
    /\ (ex.pc # "rmdir" /\ ex'.pc = "rmdir") => ex.pc = "loop" /\ ex.todo = {}
    /\ (ex.pc # "returned" /\ ex'.pc = "returned") => ex.pc = "rmdir"

\* the step is the one by which the exit hook returns
ExitHookEnds == ex.pc # "returned" /\ ex'.pc = "returned"

\* C15 (as claimed): the exit hook attempts the deletion of every tracked
\* entry whose file exists, whatever its age, a failing deletion does not
\* stop it, it does not raise, and when it returns temp_files is empty.
C15_ExitHookEmptiesRegistry ==
    [][ExitHookPerEntry /\ (ExitHookEnds => temp_files' = {})]_vars

\* C15 (amended): the exit hook attempts the deletion of every tracked entry
\* whose file exists, whatever its age, a failing deletion does not stop it,
\* it does not raise, and no step of the hook removes an entry from
\* temp_files.
C15_ExitHookKeepsRegistry ==
    [][ExitHookPerEntry /\ (ex' # ex => temp_files' = temp_files)]_vars

C15_Witness ==
    /\ ex.pc = "returned"
    /\ \E p, q \in temp_files :
          /\ p # q
          /\ ~Exists(p) /\ RemoveCalls(p) >= 2
          /\ ~Exists(q) /\ RemoveCalls(q) >= 1

\* C16: a firing of the sweep that has entries to process is not stopped by
\* a failure: it ends only when it has gone through every entry of its
\* snapshot, no exception having cut it short.
C16_SweepSurvivesFailure ==
    [][(SweepEnds /\ temp_files # {}) => sw'.error = ""]_vars

\* C17: no firing ends the sweeper: a firing that has started, whatever
\* happens in it (the exception it raises included), comes back to its sleep
\* with the next firing set one interval ahead; and as long as the process
\* runs, a sweeper whose interval has elapsed fires.
C17_SweeperKeepsFiring ==
    /\ [][/\ sw'.pc \in {"sleep", "acquire", "locked"}
          /\ SweepEnds => sw'.wake = now + SweepInterval]_vars
    /\ (sw.pc # "sleep") ~> (sw.pc = "sleep" \/ ~Running)
    /\ (sw.pc = "sleep" /\ now >= sw.wake) ~> (sw.pc # "sleep" \/ ~Running)

C17_Witness ==
    /\ sw.pc = "locked"
    /\ sw.wake > SweepInterval
    /\ sw.error = "UnboundLocalError"

\* the steps at which a thread waits for temp_files_lock
JobWaitsForLock(j) == jobs[j].pc \in {"reg", "errlock"}

CleanupWaitsForLock(j) == dc[j].pc = "lock"

\* C18: a request holds temp_files_lock only around its temp_files.add and
\* its temp_files.discard, hence never during its metadata or download call;
\* the lock is always released again, and a request, a delayed cleanup or
\* the sweeper that waits for the lock obtains it (unless the process ends):
\* time and again the lock is free and the thread is not waiting for it.
C18_LockNeverHeldWhileBlocked ==
    /\ [](\A j \in Jobs :
            /\ lock = <<"job", j>> => jobs[j].pc \in {"regadd", "errdiscard"}
            /\ jobs[j].pc \in {"meta", "extract"} => lock # <<"job", j>>)
    /\ []<>(lock = Unlocked \/ ~Running)
    /\ \A j \in Jobs :
          /\ []<>(~JobWaitsForLock(j) \/ ~Running)
          /\ []<>(~CleanupWaitsForLock(j) \/ ~Running)
    /\ []<>(sw.pc # "acquire" \/ ~Running)

C18_Witness ==
    \E i, j \in Jobs :
        /\ jobs[i].pc = "extract"
        /\ jobs[j].pc = "regadd"
        /\ lock = <<"job", j>>

\* some request has executed temp_files.add for the path p
WasRegistered(p) == \E i \in Jobs : jobs[i].registered /\ jobs[i].out = p

\* C19: a request starts its download call, and makes or causes a deletion
\* call on its path (pre-download overwrite, empty-file delete, stream-failure
\* cleanup, delayed cleanup), only after it has registered the path; the exit
\* hook makes deletion calls only on paths that a request has registered, and
\* the sweep makes none.
C19_RegisteredBeforeUse ==
    [][/\ \A j \in Jobs :
             /\ (jobs[j].pc \in {"preremove", "extract", "rmempty", "errremove"}
                 /\ jobs'[j] # jobs[j])
                => jobs[j].registered
             /\ (dc[j].pc = "remove" /\ dc'[j] # dc[j]) => jobs[j].registered
       /\ sw' # sw => removes' = removes /\ disk' = disk
       /\ (ex.pc = "remove" /\ ex' # ex) => WasRegistered(ex.cur)]_vars

C19_Witness ==
    \E j \in Jobs :
        /\ jobs[j].registered
        /\ jobs[j].dl
        /\ RemoveCalls(jobs[j].out) >= 1
        /\ ~Exists(jobs[j].out)
        /\ ex.pc = "done"

\* C20: every file on disk (all of them were written by downloads) has its
\* path in temp_files.
C20_NoUntrackedFile == \A p \in DOMAIN disk : p \in temp_files

====
